---------------------------- MODULE Spec2Model ----------------------------
(***************************************************************************)
(* Model of number_types/coordinates.py: the Coordinate value type, a     *)
(* pair of numbers tagged rectangular (x, y) or polar (r, theta).         *)
(*                                                                         *)
(* Numbers.  The code computes on Python floats.  The model computes on   *)
(* exact real numbers of the form                                          *)
(*                                                                         *)
(*        (n + s * sqrt(2)) / 2  +  t * (tau / 8)                          *)
(*                                                                         *)
(* with integers n, s, t.  On this lattice cos, sin, atan, sqrt, *, / and  *)
(* % are computed exactly for the points of the eight rays at multiples    *)
(* of tau/8 (the four half-axes and the four diagonals).  A value that     *)
(* leaves the lattice is NaR ("not a representable real"); an operation    *)
(* whose result holds NaR is not taken.  Floating-point rounding is not    *)
(* modelled: "equal" below means equal as real numbers.                    *)
(***************************************************************************)
EXTENDS Integers, FiniteSets, Sequences, TLC

\* ------------------------------------------------------------------ bounds
\* Constructed rectangular Coordinates have integer x, y in -MaxXY..MaxXY.
MaxXY == 1
\* Constructed polar Coordinates have integer r in -MaxR..MaxR ...
MaxR == 1
\* ... and theta = k * tau/8 with k in -MinTheta..MaxTheta: below 0, every
\* direction of [0, tau), and tau and above.  rotate takes the same angles.
MinTheta == 2
MaxTheta == 9
\* Real scalars for * and / are the integers in -MaxScalar..MaxScalar.
MaxScalar == 2
\* A sequence applies at most MaxOps operations to a constructed Coordinate.
MaxOps == 2
\* Hashes are taken modulo HashMod.
HashMod == 1009

\* ----------------------------------------------------------------- numbers
Num(n, s, t) == [n |-> n, s |-> s, t |-> t, ok |-> TRUE]
NaR == [n |-> 0, s |-> 0, t |-> 0, ok |-> FALSE]

\* The Python number k (an int, or a float with an integer value).
Real(k) == Num(2 * k, 0, 0)
\* The angle k * tau/8, in radians.
Angle(k) == Num(0, 0, k)
ZERO == Num(0, 0, 0)

IsAlg(v) == v.ok /\ v.t = 0
IsAngle(v) == v.ok /\ v.n = 0 /\ v.s = 0
IsInt(v) == IsAlg(v) /\ v.s = 0 /\ v.n % 2 = 0

\* math.pi and math.tau, in units of tau/8.
PI == Angle(4)
TAU == Angle(8)

Abs(k) == IF k < 0 THEN -k ELSE k

\* Sign of n + s*sqrt(2): compares n^2 with 2*s^2 when n and s disagree.
AlgSign(n, s) ==
    IF n = 0 /\ s = 0 THEN 0
    ELSE IF n >= 0 /\ s >= 0 THEN 1
    ELSE IF n <= 0 /\ s <= 0 THEN -1
    ELSE IF n > 0 THEN (IF n * n > 2 * s * s THEN 1 ELSE -1)
    ELSE (IF 2 * s * s > n * n THEN 1 ELSE -1)

\* -1, 0, 1: the sign of v; 2 when the lattice cannot decide it.
Sign(v) ==
    IF ~v.ok THEN 2
    ELSE IF v.t = 0 THEN AlgSign(v.n, v.s)
    ELSE IF v.n = 0 /\ v.s = 0 THEN (IF v.t > 0 THEN 1 ELSE -1)
    ELSE IF AlgSign(v.n, v.s) = (IF v.t > 0 THEN 1 ELSE -1) THEN AlgSign(v.n, v.s)
    ELSE 2

\* u + v
Add(u, v) ==
    IF ~u.ok \/ ~v.ok THEN NaR ELSE Num(u.n + v.n, u.s + v.s, u.t + v.t)

\* -u
Neg(u) == IF ~u.ok THEN NaR ELSE Num(-u.n, -u.s, -u.t)

\* u * v: an integer factor scales; otherwise the product in Z[sqrt 2]/2.
Mul(u, v) ==
    IF ~u.ok \/ ~v.ok THEN NaR
    ELSE IF IsInt(v) THEN Num(u.n * (v.n \div 2), u.s * (v.n \div 2), u.t * (v.n \div 2))
    ELSE IF IsInt(u) THEN Num(v.n * (u.n \div 2), v.s * (u.n \div 2), v.t * (u.n \div 2))
    ELSE IF IsAlg(u) /\ IsAlg(v)
            /\ (u.n * v.n + 2 * u.s * v.s) % 2 = 0
            /\ (u.n * v.s + u.s * v.n) % 2 = 0
         THEN Num((u.n * v.n + 2 * u.s * v.s) \div 2, (u.n * v.s + u.s * v.n) \div 2, 0)
    ELSE NaR

\* Whether d divides k exactly (d # 0).
Divides(d, k) == Abs(k) % Abs(d) = 0
\* k / d for d dividing k, with the sign of the quotient right for negative d.
Quot(k, d) == IF (k < 0) = (d < 0) THEN Abs(k) \div Abs(d) ELSE -(Abs(k) \div Abs(d))

\* u / v (true division).  Division by zero raises in Python: no value.
Div(u, v) ==
    IF ~u.ok \/ ~v.ok \/ v = ZERO THEN NaR
    ELSE IF IsInt(v)
         THEN LET k == v.n \div 2 IN
              IF Divides(k, u.n) /\ Divides(k, u.s) /\ Divides(k, u.t)
              THEN Num(Quot(u.n, k), Quot(u.s, k), Quot(u.t, k))
              ELSE NaR
    ELSE IF IsAlg(u) /\ IsAlg(v)
         THEN LET d == v.n * v.n - 2 * v.s * v.s
                  a == 2 * (u.n * v.n - 2 * u.s * v.s)
                  b == 2 * (u.s * v.n - u.n * v.s)
              IN  IF Divides(d, a) /\ Divides(d, b)
                  THEN Num(Quot(a, d), Quot(b, d), 0)
                  ELSE NaR
    ELSE NaR

\* u ** 2
Sq(u) == Mul(u, u)

\* The candidates p with p^2 <= 2k.
RootRange(k) == {p \in -(k + 1) .. (k + 1) : p * p <= 2 * k}

\* u ** 0.5: the non-negative w = (p + q*sqrt(2))/2 with w * w = u, that is
\* (p^2 + 2q^2)/2 = u.n and p*q = u.s, when the lattice holds it.
Sqrt(u) ==
    IF ~IsAlg(u) \/ AlgSign(u.n, u.s) < 0 THEN NaR
    ELSE LET roots == {w \in RootRange(u.n) \X RootRange(u.n) :
                          /\ w[1] * w[2] = u.s
                          /\ w[1] * w[1] + 2 * w[2] * w[2] = 2 * u.n
                          /\ AlgSign(w[1], w[2]) >= 0}
         IN  IF roots = {} THEN NaR
             ELSE LET w == CHOOSE w \in roots : TRUE IN Num(w[1], w[2], 0)

\* u % m for a positive modulus m: the result has the sign of m (Python).
Mod(u, m) ==
    IF IsAngle(u) /\ IsAngle(m) /\ m.t > 0 THEN Angle(u.t % m.t) ELSE NaR

\* math.cos at the multiples of tau/8: 1, sqrt(2)/2, 0, -sqrt(2)/2, -1, ...
Cos(u) ==
    IF ~IsAngle(u) THEN NaR
    ELSE LET k == u.t % 8 IN
         IF k = 0 THEN Num(2, 0, 0)
         ELSE IF k = 1 \/ k = 7 THEN Num(0, 1, 0)
         ELSE IF k = 2 \/ k = 6 THEN ZERO
         ELSE IF k = 3 \/ k = 5 THEN Num(0, -1, 0)
         ELSE Num(-2, 0, 0)

\* math.sin(u) = cos(u - tau/4)
Sin(u) == IF ~IsAngle(u) THEN NaR ELSE Cos(Angle(u.t - 2))

\* math.atan, with values in (-tau/4, tau/4): atan(0) = 0, atan(1) = tau/8,
\* atan(-1) = -tau/8.
Atan(u) ==
    IF u = ZERO THEN ZERO
    ELSE IF u = Real(1) THEN Angle(1)
    ELSE IF u = Real(-1) THEN Angle(-1)
    ELSE NaR


\* -------------------------------------------------------------- Coordinate
\* The tuple (self[0], self[1]) and the flag _is_rectangular.  Python's
\* default for the third argument is is_rectangular = True.
Coordinate(e0, e1, is_rectangular) ==
    [e0 |-> e0, e1 |-> e1, is_rectangular |-> is_rectangular]

\* Whether x**2 + y**2 etc. stayed on the lattice: both stored numbers exist.
Exact(c) == c.e0.ok /\ c.e1.ok

RECURSIVE x(_), y(_), r(_), theta(_), to_polar(_), to_rect(_), pos(_)

x(self) == IF self.is_rectangular THEN self.e0 ELSE x(to_rect(self))

y(self) == IF self.is_rectangular THEN self.e1 ELSE y(to_rect(self))

r(self) ==
    IF self.is_rectangular
    THEN Sqrt(Add(Sq(x(self)), Sq(y(self))))
    ELSE self.e0

theta(self) == IF self.is_rectangular THEN theta(to_polar(self)) ELSE self.e1

abs(self) == r(self)

\* to_polar without the quadrant correction: atan(y / x) alone.
to_polar_no_quadrant(self) ==
    IF self.is_rectangular
    THEN LET th == IF x(self) # ZERO
                   THEN Atan(Div(y(self), x(self)))
                   ELSE IF y(self) # ZERO
                   THEN (IF Sign(y(self)) > 0
                         THEN Div(TAU, Real(4))
                         ELSE Div(Mul(TAU, Real(3)), Real(4)))
                   ELSE ZERO
         IN  Coordinate(abs(self), th, FALSE)
    ELSE pos(self)

to_polar(self) ==
    IF self.is_rectangular
    THEN LET th == IF x(self) # ZERO
                   THEN Add(Atan(Div(y(self), x(self))),
                            IF Sign(x(self)) < 0 THEN PI ELSE ZERO)
                   ELSE IF y(self) # ZERO
                   THEN (IF Sign(y(self)) > 0
                         THEN Div(TAU, Real(4))
                         ELSE Div(Mul(TAU, Real(3)), Real(4)))
                   ELSE ZERO
         IN  Coordinate(abs(self), th, FALSE)
    ELSE pos(self)

\* to_rect with cos and sin exchanged.
to_rect_swapped(self) ==
    IF self.is_rectangular
    THEN self
    ELSE Coordinate(Mul(r(self), Sin(theta(self))),
                    Mul(r(self), Cos(theta(self))), TRUE)

to_rect(self) ==
    IF self.is_rectangular
    THEN self
    ELSE Coordinate(Mul(r(self), Cos(theta(self))),
                    Mul(r(self), Sin(theta(self))), TRUE)

\* __pos__ that copies theta without reducing it modulo tau.
pos_no_mod(self) ==
    IF self.is_rectangular
    THEN Coordinate(x(self), y(self), TRUE)
    ELSE Coordinate(r(self), theta(self), FALSE)

\* __pos__
pos(self) ==
    IF self.is_rectangular
    THEN Coordinate(x(self), y(self), TRUE)
    ELSE Coordinate(r(self), Mod(theta(self), TAU), FALSE)

\* __neg__
neg(self) == pos(Coordinate(Neg(self.e0), Neg(self.e1), self.is_rectangular))

conjugate(self) == pos(Coordinate(self.e0, Neg(self.e1), self.is_rectangular))

\* __add__ that takes the representation of the right operand.
add_by_other(self, other) ==
    LET rect_self == to_rect(self)
        rect_other == to_rect(other)
        added == Coordinate(Add(x(rect_self), x(rect_other)),
                            Add(y(rect_self), y(rect_other)), TRUE)
    IN  IF ~other.is_rectangular THEN to_polar(added) ELSE added

\* __add__
add(self, other) ==
    LET rect_self == to_rect(self)
        rect_other == to_rect(other)
        added == Coordinate(Add(x(rect_self), x(rect_other)),
                            Add(y(rect_self), y(rect_other)), TRUE)
    IN  IF ~self.is_rectangular THEN to_polar(added) ELSE added

\* __sub__
sub(self, other) ==
    LET rect_self == to_rect(self)
        neg_other == neg(to_rect(other))
        subtracted == Coordinate(Add(x(rect_self), x(neg_other)),
                                 Add(y(rect_self), y(neg_other)), TRUE)
    IN  IF ~self.is_rectangular THEN to_polar(subtracted) ELSE subtracted

\* __mul__ by a real scalar
mul(self, k) ==
    IF self.is_rectangular
    THEN Coordinate(Mul(x(self), k), Mul(y(self), k), TRUE)
    ELSE pos(Coordinate(Mul(r(self), k), theta(self), FALSE))

\* __truediv__ by a real scalar
truediv(self, k) ==
    IF self.is_rectangular
    THEN Coordinate(Div(x(self), k), Div(y(self), k), TRUE)
    ELSE pos(Coordinate(Div(r(self), k), theta(self), FALSE))

\* rotate: the Coordinate built from (r, theta + angle) gets no third
\* argument, so is_rectangular takes its default, True.
rotate(self, angle) ==
    LET polar_self == to_polar(self)
        rotated == pos(Coordinate(r(polar_self), Add(theta(polar_self), angle), TRUE))
    IN  IF self.is_rectangular THEN to_rect(rotated) ELSE rotated

\* The numbers __eq__ compares, on the branch it takes.
eq_operands(self, other) ==
    IF other.is_rectangular /\ self.is_rectangular
    THEN <<x(self), x(other), y(self), y(other)>>
    ELSE IF ~other.is_rectangular /\ ~other.is_rectangular
    THEN <<r(self), r(other), Mod(theta(self), TAU), Mod(theta(other), TAU)>>
    ELSE <<x(to_rect(self)), x(to_rect(other)), y(to_rect(self)), y(to_rect(other))>>

\* __eq__ between two Coordinates.  The second branch tests other twice.
RECURSIVE eq(_, _)
eq(self, other) ==
    IF other.is_rectangular /\ self.is_rectangular
    THEN x(self) = x(other) /\ y(self) = y(other)
    ELSE IF ~other.is_rectangular /\ ~other.is_rectangular
    THEN r(self) = r(other) /\ Mod(theta(self), TAU) = Mod(theta(other), TAU)
    ELSE eq(to_rect(self), to_rect(other))

\* Whether every number __eq__ compares is on the lattice.
eq_exact(self, other) == \A i \in 1..4 : eq_operands(self, other)[i].ok

\* hash() of a number: a function of its value, equal for equal values.
NumHash(v) == (v.n + 3 * v.s + 5 * v.t) % HashMod

\* tuple.__hash__ of a pair: combines the hashes of the two elements.
TupleHash(pair) == (7 * NumHash(pair[1]) + NumHash(pair[2])) % HashMod

\* __hash__ of the stored pair, whatever the representation.
hash_stored(self) == TupleHash(<<self.e0, self.e1>>)

\* __hash__: the tuple hash of the rectangular form.
hash(self) == TupleHash(<<to_rect(self).e0, to_rect(self).e1>>)


\* ------------------------------------------------------------------ inputs
\* Coordinate(x, y) for integers x, y.
RectInputs ==
    {Coordinate(Real(i), Real(j), TRUE) : i \in -MaxXY..MaxXY, j \in -MaxXY..MaxXY}

\* Coordinate(r, theta, False) for an integer r (zero and negative included)
\* and theta a multiple of tau/8, in and out of [0, tau).
PolarInputs ==
    {Coordinate(Real(k), Angle(a), FALSE) : k \in -MaxR..MaxR, a \in -MinTheta..MaxTheta}

Inputs == RectInputs \cup PolarInputs

\* The right operands of + and - in a sequence.  Both read only
\* other.to_rect(), and these operands have every rectangular form that
\* Inputs has: (-r, theta) and (r, theta + tau/2) convert to the same point.
SeqOperands ==
    RectInputs \cup
    {Coordinate(Real(k), Angle(a), FALSE) : k \in 1..MaxR, a \in 0..(TAU.t - 1)}

\* numbers.Real operands of * and /.
Scalars == {Real(k) : k \in -MaxScalar..MaxScalar}

\* Angles passed to rotate.
Angles == {Angle(k) : k \in -MinTheta..MaxTheta}

\* ------------------------------------------------------------------- state
VARIABLES
    self,     \* the receiver of the last operation
    other,    \* its Coordinate operand (the receiver itself when it has none)
    scalar,   \* its number operand: a real scalar or an angle (ZERO when none)
    op,       \* the name of the last operation
    result,   \* the Coordinate it returned (the receiver, for == and hash)
    truth,    \* what == returned
    digest,   \* what hash returned
    steps     \* operations applied since the receiver was constructed

vars == <<self, other, scalar, op, result, truth, digest, steps>>

Init ==
    /\ self \in Inputs
    /\ other = self
    /\ scalar = ZERO
    /\ op = "new"
    /\ result = self
    /\ truth = FALSE
    /\ digest = 0
    /\ steps = 0

\* An operation named name, on receiver c with operands d and k, returned
\* the Coordinate res; n operations have now been applied.
Returned(name, c, d, k, res, n) ==
    /\ Exact(res)
    /\ self' = c
    /\ other' = d
    /\ scalar' = k
    /\ op' = name
    /\ result' = res
    /\ truth' = FALSE
    /\ digest' = 0
    /\ steps' = n

ToPolar(c, n) == Returned("to_polar", c, c, ZERO, to_polar(c), n)

ToRect(c, n) == Returned("to_rect", c, c, ZERO, to_rect(c), n)

Pos(c, n) == Returned("pos", c, c, ZERO, pos(c), n)

NegOp(c, n) == Returned("neg", c, c, ZERO, neg(c), n)

Conjugate(c, n) == Returned("conjugate", c, c, ZERO, conjugate(c), n)

AddOp(c, n) == \E d \in Inputs : Returned("add", c, d, ZERO, add(c, d), n)

SubOp(c, n) == \E d \in Inputs : Returned("sub", c, d, ZERO, sub(c, d), n)

MulOp(c, n) == \E k \in Scalars : Returned("mul", c, c, k, mul(c, k), n)

TrueDiv(c, n) == \E k \in Scalars : Returned("truediv", c, c, k, truediv(c, k), n)

Rotate(c, n) == \E a \in Angles : Returned("rotate", c, c, a, rotate(c, a), n)

\* c == d
EqOp(c) ==
    \E d \in Inputs :
        /\ eq_exact(c, d)
        /\ self' = c
        /\ other' = d
        /\ scalar' = ZERO
        /\ op' = "eq"
        /\ result' = c
        /\ truth' = eq(c, d)
        /\ digest' = 0
        /\ steps' = 1

\* hash(c)
HashOp(c) ==
    /\ Exact(to_rect(c))
    /\ self' = c
    /\ other' = c
    /\ scalar' = ZERO
    /\ op' = "hash"
    /\ result' = c
    /\ truth' = FALSE
    /\ digest' = hash(c)
    /\ steps' = 1

\* One operation on a constructed Coordinate.
Next ==
    \/ steps < 1 /\ ToPolar(result, 1)
    \/ steps < 1 /\ ToRect(result, 1)
    \/ steps < 1 /\ Pos(result, 1)
    \/ steps < 1 /\ NegOp(result, 1)
    \/ steps < 1 /\ Conjugate(result, 1)
    \/ steps < 1 /\ AddOp(result, 1)
    \/ steps < 1 /\ SubOp(result, 1)
    \/ steps < 1 /\ MulOp(result, 1)
    \/ steps < 1 /\ TrueDiv(result, 1)
    \/ steps < 1 /\ Rotate(result, 1)
    \/ steps < 1 /\ EqOp(result)
    \/ steps < 1 /\ HashOp(result)

Spec == Init /\ [][Next]_vars

\* In a sequence each operation is applied to what the last one returned;
\* of an operation the sequence keeps the receiver, the name and the result.
Then(name, res) ==
    /\ steps < MaxOps
    /\ Exact(res)
    /\ self' = result
    /\ other' = result
    /\ scalar' = ZERO
    /\ op' = name
    /\ result' = res
    /\ truth' = FALSE
    /\ digest' = 0
    /\ steps' = steps + 1

SeqNext ==
    \/ Then("to_polar", to_polar(result))
    \/ Then("to_rect", to_rect(result))
    \/ Then("pos", pos(result))
    \/ Then("neg", neg(result))
    \/ Then("conjugate", conjugate(result))
    \/ \E d \in SeqOperands : Then("add", add(result, d))
    \/ \E d \in SeqOperands : Then("sub", sub(result, d))
    \/ \E k \in Scalars : Then("mul", mul(result, k))
    \/ \E k \in Scalars : Then("truediv", truediv(result, k))
    \/ \E a \in Angles : Then("rotate", rotate(result, a))

SpecSeq == Init /\ [][SeqNext]_vars


\* ------------------------------------------------------------------ claims
\* a and b denote the same point: equal x and y after to_rect.
SamePoint(a, b) ==
    /\ Exact(to_rect(a))
    /\ Exact(to_rect(b))
    /\ to_rect(a).e0 = to_rect(b).e0
    /\ to_rect(a).e1 = to_rect(b).e1

\* C1: strict equality is symmetric: whenever a == b was evaluated, b == a
\* gives the same result, in any mix of representations.
EqSymmetric ==
    (op = "eq" /\ eq_exact(other, self)) => (truth = eq(other, self))

\* C2: strict equality is representation-independent: two Coordinates that
\* denote the same point compare equal, whichever representation each stores.
EqSamePoint ==
    (op = "eq" /\ SamePoint(self, other)) => truth

Turned(c, angle) ==
    Coordinate(r(to_polar(c)), Mod(Add(theta(to_polar(c)), angle), TAU), FALSE)

\* C4: c.rotate(angle) denotes the point c turned anticlockwise by angle about
\* the origin (so rotate(tau) denotes c, and (2,0).rotate(tau/4) is (0,2)).
RotateTurns ==
    op = "rotate" => SamePoint(result, Turned(self, scalar))

\* C5 as stated: for a polar p with r >= 0 (r = 0 included),
\* p.to_rect().to_polar() has the r of p and the theta of p modulo tau.
PolarRoundTripFromZero ==
    (op = "to_rect" /\ ~self.is_rectangular /\ Sign(self.e0) >= 0)
        => /\ Exact(to_polar(result))
           /\ to_polar(result).e0 = self.e0
           /\ Mod(to_polar(result).e1, TAU) = Mod(self.e1, TAU)

\* C5 amended: for a polar p with r > 0, p.to_rect().to_polar() has the r of
\* p and the theta of p modulo tau.
PolarRoundTrip ==
    (op = "to_rect" /\ ~self.is_rectangular /\ Sign(self.e0) > 0)
        => /\ Exact(to_polar(result))
           /\ to_polar(result).e0 = self.e0
           /\ Mod(to_polar(result).e1, TAU) = Mod(self.e1, TAU)

\* A polar Coordinate of positive r on a diagonal, with theta more than a
\* turn, was converted to rectangular.
PolarRoundTripWitness ==
    /\ op = "to_rect"
    /\ ~self.is_rectangular
    /\ Sign(self.e0) > 0
    /\ self.e1.t > TAU.t
    /\ result.e0 # ZERO
    /\ result.e1 # ZERO

\* The angle of the ray through (x, y), in units of tau/8, as C6 gives it:
\* atan(y/x), plus tau/2 when x < 0; tau/4 and 3*tau/4 on the y axis; 0 at
\* the origin.  sx and sy are the signs of x and y.
RayAngle(sx, sy) ==
    IF sx > 0 THEN sy
    ELSE IF sx < 0 THEN 4 - sy
    ELSE IF sy > 0 THEN 2
    ELSE IF sy < 0 THEN 6
    ELSE 0

\* C6: for a rectangular Coordinate(x, y) in any quadrant or on any axis,
\* to_polar().to_rect() is (x, y) again, and to_polar chose the angle above.
RectRoundTrip ==
    (op = "to_polar" /\ self.is_rectangular)
        => /\ to_rect(result) = Coordinate(self.e0, self.e1, TRUE)
           /\ result.e1 = Angle(RayAngle(Sign(self.e0), Sign(self.e1)))

\* A rectangular point of the third quadrant (x < 0, so the quadrant
\* correction is taken) was converted to polar.
RectRoundTripWitness ==
    /\ op = "to_polar"
    /\ self.is_rectangular
    /\ Sign(self.e0) < 0
    /\ Sign(self.e1) < 0
    /\ result.e1 = Angle(5)

NegIsInverse ==
    op = "neg"
        => /\ to_rect(result).e0 = Neg(to_rect(self).e0)
           /\ to_rect(result).e1 = Neg(to_rect(self).e1)

FromAtan ==
    \/ op = "add"
    \/ op = "sub"
    \/ op = "to_polar" /\ self.is_rectangular

=============================================================================
